---- MODULE Spec2Model ----
(***************************************************************************)
(* TextureStreamer (uv-texture-stream): a Blender timer callback that      *)
(* pipes the pixels of an image into an ffmpeg subprocess.                 *)
(*                                                                         *)
(* Time is counted in frame periods: the value `period` returned by        *)
(* stream() is Period = 1 unit and KEEPALIVE_SECONDS is                    *)
(* KEEPALIVE_SECONDS * STREAM_FPS units. The host runs a timer when it is  *)
(* due or any time later: a call of stream() or stop() takes the time the  *)
(* pipe takes, and the next timer waits for it.                            *)
(*                                                                         *)
(* The image belongs to Blender and may change in any way between two      *)
(* calls, so every call of start() and stream() is given the image as it   *)
(* is at that call. The ffmpeg process runs on its own: it may exit        *)
(* between two calls and also inside a call.                               *)
(***************************************************************************)
EXTENDS Integers, Sequences, FiniteSets, Bags, TLC

\* ------------------------------------------------------------- constants
STREAM_FPS == 15
KEEPALIVE_SECONDS == 1

\* period = 1.0 / STREAM_FPS, in time units
Period == 1
\* KEEPALIVE_SECONDS, in time units
Keepalive == KEEPALIVE_SECONDS * STREAM_FPS * Period

\* ---------------------------------------------------------------- bounds
\* the clock runs over StartTime .. StartTime + Horizon
Horizon == 4
\* and over StartTime .. StartTime + LongHorizon where a keepalive frame is to
\* be reached: more than KEEPALIVE_SECONDS
LongHorizon == 16
\* number of encoder processes that may be spawned in one behaviour
MaxSpawn == 2
\* number of frames that may be written in one session
MaxFrames == 2

\* time.time() is seconds since the epoch: far more than KEEPALIVE_SECONDS
\* after 0.0, the value start() gives last_send_time
StartTime == Keepalive + 1
MaxTime == StartTime + Horizon
LongMaxTime == StartTime + LongHorizon

\* self.proc = None
None == 0
\* stream() returning None (the timer is dropped)
RetNone == -1

\* (W, H) of the image; img.size
ImgSizes == {<<0, 1>>, <<1, 0>>, <<1, 1>>, <<2, 1>>}
\* no image, no command
NoSize == <<0, 0>>

\* len(img.pixels) of an image of that size: W * H floats for each of its 4
\* or 3 channels
PixelCounts(size) == {size[1] * size[2] * 4, size[1] * size[2] * 3}

\* bpy.data.images.get(IMAGE_NAME) is None
NoImage == [present |-> FALSE, size |-> NoSize, pixels |-> 0, is_dirty |-> FALSE]
\* what bpy.data.images.get(IMAGE_NAME) may return
Images ==
    {NoImage} \cup
    UNION {{[present |-> TRUE, size |-> s, pixels |-> n, is_dirty |-> d] :
              n \in PixelCounts(s), d \in BOOLEAN} : s \in ImgSizes}

\* start() reads the presence and the size of the image, never is_dirty or pixels
StartImages ==
    {image \in Images : ~image.is_dirty /\ image.pixels = image.size[1] * image.size[2] * 4}

VARIABLES
    proc,            \* self.proc: None or the id of a spawned process
    running,         \* self.running
    last_error,      \* self.last_error
    last_send_time,  \* self.last_send_time
    frames_sent,     \* self.frames_sent
    spawned,         \* number of processes spawned so far; the last one has this id
    proc_state,      \* the process spawned last: NotStarted, Running, Exited or Killed
    stdin_open,      \* the stdin pipe of the process spawned last is open
    cmd_size,        \* the "-s WxH" of the ffmpeg command spawned last
    bytes_written,   \* bytes taken by the stdin.write calls on the process spawned last
    now,             \* time.time()
    timers,          \* bpy.app.timers: bag of the delays left of the registered self.stream
    op,              \* the step taken last: "start", "stop", "tick", "status" or "env"
    img,             \* the image the last step was given, when it was a start or a tick
    ret,             \* what stream() returned, when the last step was a tick
    px_read,         \* the last step read img.pixels
    wrote,           \* the last step called proc.stdin.write
    dead_write,      \* and called it on a process that had exited
    term,            \* the last step called proc.terminate(): "", "called" or "raised"
    status           \* what status_text() returned, when the last step was one

\* the fields of the TextureStreamer
fields == <<proc, running, last_error, last_send_time, frames_sent>>

\* the processes and the timers
world == <<spawned, proc_state, stdin_open, cmd_size, bytes_written, timers>>

\* what the last step did
trace == <<op, img, ret, px_read, wrote, dead_write, term, status>>

vars == <<fields, world, now, trace>>

\* ------------------------------------------------------------ TextureStreamer

\* the bytes ffmpeg takes as one frame: "-f rawvideo -pix_fmt rgba -s WxH"
CmdFrameBytes(size) == size[1] * size[2] * 4

\* len(u8.tobytes()): one byte for each float of img.pixels
FrameBytes(pixels) == pixels

\* ShouldSend with the dirty flag left out
ShouldSendOnKeepalive(dirty, t, last) == (t - last) > Keepalive

\* ShouldSend with the keepalive test left out
ShouldSendWhenDirty(dirty, t, last) == dirty

\* ShouldSend with `>=` for `>`
ShouldSendAtKeepalive(dirty, t, last) == dirty \/ (t - last) >= Keepalive

\* should_send = bool(img.is_dirty) or (now - self.last_send_time) > KEEPALIVE_SECONDS
ShouldSend(dirty, t, last) == dirty \/ (t - last) > Keepalive

\* BadSize with `and` for `or`
BadSizeBoth(size) == size[1] = 0 /\ size[2] = 0

\* W == 0 or H == 0
BadSize(size) == size[1] = 0 \/ size[2] = 0

\* ProcExited with the poll left out
ProcExitedNever == FALSE

\* self.proc and (self.proc.poll() is not None)
ProcExited == proc # None /\ proc_state # "Running"

\* StatusText with running looked at before last_error
StatusTextRunningFirst ==
    IF running THEN "Streaming"
    ELSE IF last_error # "" THEN "Error" ELSE "Stopped"

\* status_text()
StatusText ==
    IF last_error # "" THEN "Error"
    ELSE IF running THEN "Streaming" ELSE "Stopped"

\* __init__
Init ==
    /\ proc = None
    /\ running = FALSE
    /\ last_error = ""
    /\ last_send_time = 0
    /\ frames_sent = 0
    /\ spawned = 0
    /\ proc_state = "NotStarted"
    /\ stdin_open = FALSE
    /\ cmd_size = NoSize
    /\ bytes_written = 0
    /\ now = StartTime
    /\ timers = EmptyBag
    /\ op = "env"
    /\ img = NoImage
    /\ ret = RetNone
    /\ px_read = FALSE
    /\ wrote = FALSE
    /\ dead_write = FALSE
    /\ term = ""
    /\ status = ""

\* the states the process held by the streamer may be in later in a call that
\* finds it in proc_state: a running process may exit at any moment
MayExit ==
    IF proc # None /\ proc_state = "Running" THEN {"Running", "Exited"} ELSE {proc_state}

\* whether Popen may raise: it may always, and it must once MaxSpawn processes exist
PopenOutcomes == IF spawned < MaxSpawn THEN BOOLEAN ELSE {TRUE}

\* _set_error(msg); return, in start()
StartError(msg) ==
    /\ last_error' = msg
    /\ UNCHANGED <<proc, running, world>>

\* Spawn with `self.last_error = ""` left out
SpawnKeepsError(size, popen_fails) ==
    IF popen_fails
      THEN /\ proc' = None
           /\ last_error' = "Failed to start ffmpeg"
           /\ UNCHANGED <<running, world>>
      ELSE /\ last_error' = last_error
           /\ spawned' = spawned + 1
           /\ proc_state' = "Running"
           /\ stdin_open' = TRUE
           /\ cmd_size' = size
           /\ bytes_written' = 0
           /\ proc' = spawned + 1
           /\ running' = TRUE
           /\ timers' = timers (+) SetToBag({0})

\* self.proc = subprocess.Popen(ffmpeg_cmd, stdin=subprocess.PIPE) and what follows;
\* popen_fails: Popen raised
Spawn(size, popen_fails) ==
    IF popen_fails
      THEN /\ proc' = None
           /\ last_error' = "Failed to start ffmpeg"
           /\ UNCHANGED <<running, world>>
      ELSE /\ last_error' = ""
           /\ spawned' = spawned + 1
           /\ proc_state' = "Running"
           /\ stdin_open' = TRUE
           /\ cmd_size' = size
           /\ bytes_written' = 0
           /\ proc' = spawned + 1
           /\ running' = TRUE
           /\ timers' = timers (+) SetToBag({0})

\* StartBody with `self.last_send_time = 0.0` left out
StartBodyKeepsSendTime(image) ==
    /\ frames_sent' = 0
    /\ last_send_time' = last_send_time
    /\ IF ~image.present
         THEN StartError("Image not found")
       ELSE IF BadSize(image.size)
         THEN StartError("Invalid image size")
       ELSE \E ffmpeg_in_path \in BOOLEAN :
              IF ~ffmpeg_in_path
                THEN StartError("ffmpeg not found in PATH")
                ELSE \E popen_fails \in PopenOutcomes : Spawn(image.size, popen_fails)

\* start() once past `if self.running`. image: bpy.data.images.get(IMAGE_NAME);
\* ffmpeg_in_path: shutil.which("ffmpeg") is not None
StartBody(image) ==
    /\ frames_sent' = 0
    /\ last_send_time' = 0
    /\ IF ~image.present
         THEN StartError("Image not found")
       ELSE IF BadSize(image.size)
         THEN StartError("Invalid image size")
       ELSE \E ffmpeg_in_path \in BOOLEAN :
              IF ~ffmpeg_in_path
                THEN StartError("ffmpeg not found in PATH")
                ELSE \E popen_fails \in PopenOutcomes : Spawn(image.size, popen_fails)

\* Start with `if self.running: return` left out
StartUnguarded ==
    /\ \E image \in StartImages :
         /\ img' = image
         /\ StartBody(image)
    /\ op' = "start"
    /\ ret' = RetNone
    /\ px_read' = FALSE
    /\ wrote' = FALSE
    /\ dead_write' = FALSE
    /\ term' = ""
    /\ status' = ""
    /\ UNCHANGED now

\* start()
Start ==
    /\ \E image \in StartImages :
         /\ img' = image
         /\ IF running
              THEN UNCHANGED <<fields, world>>
              ELSE StartBody(image)
    /\ op' = "start"
    /\ ret' = RetNone
    /\ px_read' = FALSE
    /\ wrote' = FALSE
    /\ dead_write' = FALSE
    /\ term' = ""
    /\ status' = ""
    /\ UNCHANGED now

\* Teardown with `self.proc.terminate()` left out
TeardownWithoutTerminate(st, term_fails) ==
    /\ stdin_open' = FALSE
    /\ proc_state' = st
    /\ term' = ""
    /\ proc' = None

\* Teardown with `self.proc = None` left out
TeardownKeepsHandle(st, term_fails) ==
    /\ stdin_open' = FALSE
    /\ proc_state' = IF st = "Running" /\ ~term_fails THEN "Killed" ELSE st
    /\ term' = IF term_fails THEN "raised" ELSE "called"
    /\ proc' = proc

\* `if self.proc:` of stop(). st: the state of the process when terminate() is
\* called; term_fails: terminate() raised, which is swallowed. (stdin.close()
\* closes the pipe also when it raises.) terminate() ends a running process
\* unless it raises, and leaves one that has exited as it is
Teardown(st, term_fails) ==
    /\ stdin_open' = FALSE
    /\ proc_state' = IF st = "Running" /\ ~term_fails THEN "Killed" ELSE st
    /\ term' = IF term_fails THEN "raised" ELSE "called"
    /\ proc' = None

\* StopBody with `self.running = False` left out
StopBodyKeepsRunning(st) ==
    /\ UNCHANGED <<running, spawned>>
    /\ IF proc # None
         THEN \E term_fails \in (IF st = "Running" THEN BOOLEAN ELSE {FALSE}) :
                Teardown(st, term_fails)
         ELSE /\ term' = ""
              /\ UNCHANGED <<proc_state, stdin_open, proc>>

\* the body of stop() once past its guard. st: the state of the process when
\* terminate() is called
StopBody(st) ==
    /\ running' = FALSE
    /\ IF proc # None
         THEN \E term_fails \in (IF st = "Running" THEN BOOLEAN ELSE {FALSE}) :
                Teardown(st, term_fails)
         ELSE /\ term' = ""
              /\ UNCHANGED <<proc_state, stdin_open, proc>>
    /\ UNCHANGED spawned

\* Stop with last_error cleared, as start() clears it
StopClearsError ==
    /\ IF ~running
         THEN /\ term' = ""
              /\ UNCHANGED <<running, spawned, proc_state, stdin_open, proc>>
         ELSE \E st \in MayExit : StopBody(st)
    /\ last_error' = ""
    /\ op' = "stop"
    /\ img' = NoImage
    /\ ret' = RetNone
    /\ px_read' = FALSE
    /\ wrote' = FALSE
    /\ dead_write' = FALSE
    /\ status' = ""
    /\ UNCHANGED <<last_send_time, frames_sent, cmd_size, bytes_written, timers, now>>

\* stop()
Stop ==
    /\ IF ~running
         THEN /\ term' = ""
              /\ UNCHANGED <<running, spawned, proc_state, stdin_open, proc>>
         ELSE \E st \in MayExit : StopBody(st)
    /\ op' = "stop"
    /\ img' = NoImage
    /\ ret' = RetNone
    /\ px_read' = FALSE
    /\ wrote' = FALSE
    /\ dead_write' = FALSE
    /\ status' = ""
    /\ UNCHANGED <<last_error, last_send_time, frames_sent, cmd_size, bytes_written,
                   timers, now>>

\* whether stdin.write was called on a process that had exited, when the process
\* is in state st by the end of the write: a process that exits in the call
\* exits before the write is called, or in the write
DeadWrites(st) ==
    IF st # "Exited" THEN {FALSE}
    ELSE IF proc_state = "Exited" THEN {TRUE} ELSE BOOLEAN

\* whether stdin.write may raise: writing no bytes touches no pipe
WriteOutcomes(n) == IF n > 0 THEN BOOLEAN ELSE {FALSE}

\* the bytes that stdin has taken when a write of n bytes raises: any part of
\* the frame
PartialWrites(n) == 0..(n - 1)

\* Fail with the call of self.stop() left out
FailWithoutStop(msg, st) ==
    /\ last_error' = msg
    /\ ret' = RetNone
    /\ proc_state' = st
    /\ term' = ""
    /\ UNCHANGED <<running, stdin_open, proc, spawned>>

\* _set_error(msg); self.stop(); return None, in stream()
Fail(msg, st) ==
    /\ last_error' = msg
    /\ StopBody(st)
    /\ ret' = RetNone

\* Write with frames_sent counted before the write, so also when it raises
WriteCountsFirst(pixels, st, write_fails, partial) ==
    /\ frames_sent' = frames_sent + 1
    /\ IF write_fails
         THEN /\ bytes_written' = bytes_written + partial
              /\ Fail("Write failed", st)
              /\ UNCHANGED last_send_time
         ELSE /\ bytes_written' = bytes_written + FrameBytes(pixels)
              /\ last_send_time' = now
              /\ ret' = Period
              /\ proc_state' = st
              /\ term' = ""
              /\ UNCHANGED <<last_error, running, proc, spawned, stdin_open>>

\* Write with last_send_time set before the write, so also when it raises
WriteStampsFirst(pixels, st, write_fails, partial) ==
    /\ last_send_time' = now
    /\ IF write_fails
         THEN /\ bytes_written' = bytes_written + partial
              /\ Fail("Write failed", st)
              /\ UNCHANGED frames_sent
         ELSE /\ bytes_written' = bytes_written + FrameBytes(pixels)
              /\ frames_sent' = frames_sent + 1
              /\ ret' = Period
              /\ proc_state' = st
              /\ term' = ""
              /\ UNCHANGED <<last_error, running, proc, spawned, stdin_open>>

\* self.proc.stdin.write(u8.tobytes()) and what follows. pixels: len(img.pixels);
\* st: the state of the process by the end of the write; write_fails: the write
\* raised after stdin had taken `partial` bytes
Write(pixels, st, write_fails, partial) ==
    IF write_fails
      THEN /\ bytes_written' = bytes_written + partial
           /\ Fail("Write failed", st)
           /\ UNCHANGED <<last_send_time, frames_sent>>
      ELSE /\ bytes_written' = bytes_written + FrameBytes(pixels)
           /\ last_send_time' = now
           /\ frames_sent' = frames_sent + 1
           /\ ret' = Period
           /\ proc_state' = st
           /\ term' = ""
           /\ UNCHANGED <<last_error, running, proc, spawned, stdin_open>>

\* stream() once past the poll of the process. image: bpy.data.images.get(IMAGE_NAME);
\* st: the state of the process for the rest of the call, Exited when it exits
\* after the poll
StreamBody(image, st) ==
    IF ~image.present
      THEN /\ Fail("Image missing", st)
           /\ px_read' = FALSE
           /\ wrote' = FALSE
           /\ dead_write' = FALSE
           /\ UNCHANGED <<last_send_time, frames_sent, bytes_written>>
    ELSE IF ~ShouldSend(image.is_dirty, now, last_send_time)
      THEN /\ ret' = Period
           /\ px_read' = FALSE
           /\ wrote' = FALSE
           /\ dead_write' = FALSE
           /\ term' = ""
           /\ proc_state' = st
           /\ UNCHANGED <<fields, spawned, stdin_open, bytes_written>>
    ELSE IF proc = None
      THEN \* not self.proc or not self.proc.stdin
           /\ Fail("ffmpeg process not available.", st)
           /\ px_read' = TRUE
           /\ wrote' = FALSE
           /\ dead_write' = FALSE
           /\ UNCHANGED <<last_send_time, frames_sent, bytes_written>>
    ELSE /\ \E write_fails \in WriteOutcomes(FrameBytes(image.pixels)) :
              \E partial \in (IF write_fails THEN PartialWrites(FrameBytes(image.pixels))
                                             ELSE {0}) :
                Write(image.pixels, st, write_fails, partial)
         /\ px_read' = TRUE
         /\ wrote' = TRUE
         /\ dead_write' \in DeadWrites(st)

\* stream() once past `if not self.running`; the image is looked up only when
\* the poll finds the process alive, and the process may exit after the poll
StreamRunning ==
    IF ProcExited
      THEN /\ Fail("ffmpeg exited unexpectedly.", proc_state)
           /\ img' = NoImage
           /\ px_read' = FALSE
           /\ wrote' = FALSE
           /\ dead_write' = FALSE
           /\ UNCHANGED <<last_send_time, frames_sent, bytes_written>>
      ELSE \E image \in Images :
             /\ img' = image
             /\ \E st \in MayExit : StreamBody(image, st)

\* Stream with `if not self.running: return None` left out
StreamUnguarded == StreamRunning

\* stream()
Stream ==
    IF ~running
      THEN /\ ret' = RetNone
           /\ img' = NoImage
           /\ px_read' = FALSE
           /\ wrote' = FALSE
           /\ dead_write' = FALSE
           /\ term' = ""
           /\ UNCHANGED <<fields, spawned, proc_state, stdin_open, bytes_written>>
      ELSE StreamRunning

\* the registered self.stream that are due: no delay left
DueTimers == {d \in BagToSet(timers) : d <= 0}

\* bpy.app.timers runs a registered self.stream that is due, and keeps it with
\* the returned delay unless it returned None. The time the call takes (in
\* stdin.write, in stop()) is time that passes before the next timer is run
\* (Advance)
Tick ==
    /\ DueTimers # {}
    /\ frames_sent < MaxFrames
    /\ Stream
    /\ \E d \in DueTimers :
         timers' = IF ret' = RetNone
                     THEN timers (-) SetToBag({d})
                     ELSE (timers (-) SetToBag({d})) (+) SetToBag({ret'})
    /\ op' = "tick"
    /\ status' = ""
    /\ UNCHANGED <<cmd_size, now>>

\* ------------------------------------------------------------ environment

\* the step was none of start(), stop(), stream()
NoCall ==
    /\ op' = "env"
    /\ img' = NoImage
    /\ ret' = RetNone
    /\ px_read' = FALSE
    /\ wrote' = FALSE
    /\ dead_write' = FALSE
    /\ term' = ""
    /\ status' = ""

\* the delay left of a timer after one time unit; a timer that is due stays due
Aged(d) == IF d > 0 THEN d - 1 ELSE 0

\* the timers after one time unit
AgeTimers(b) ==
    [e \in {Aged(d) : d \in BagToSet(b)} |->
        BagCardinality([d \in {x \in BagToSet(b) : Aged(x) = e} |-> b[d]])]

\* the clock advances one time unit, up to `limit`; a timer that is due may be
\* run as late as the host likes, and a call may take as long as the pipe likes
AdvanceTo(limit) ==
    /\ now < limit
    /\ now' = now + 1
    /\ timers' = AgeTimers(timers)
    /\ UNCHANGED <<fields, spawned, proc_state, stdin_open, cmd_size, bytes_written>>
    /\ NoCall

Advance == AdvanceTo(MaxTime)

AdvanceLong == AdvanceTo(LongMaxTime)

\* the ffmpeg process held by the streamer exits on its own
EncoderExit ==
    /\ proc # None
    /\ proc_state = "Running"
    /\ proc_state' = "Exited"
    /\ UNCHANGED <<fields, spawned, stdin_open, cmd_size, bytes_written, timers,
                   now>>
    /\ NoCall

Next ==
    \/ Start
    \/ Stop
    \/ Tick
    \/ Advance
    \/ EncoderExit

Spec == Init /\ [][Next]_vars

\* stream() on an image that is not dirty
TickIdle == Tick /\ ~img'.is_dirty

NextIdle ==
    \/ Start
    \/ Stop
    \/ TickIdle
    \/ AdvanceLong
    \/ EncoderExit

\* the sessions of an image nobody paints on, over the longer clock
IdleSpec == Init /\ [][NextIdle]_vars

\* the errors that start() records
StartErrors ==
    {"Image not found", "Invalid image size", "ffmpeg not found in PATH",
     "Failed to start ffmpeg"}

\* the errors that stream() records
TickErrors ==
    {"ffmpeg exited unexpectedly.", "Image missing", "ffmpeg process not available.",
     "Write failed"}

\* a TextureStreamer with any values in its fields
InitStatus ==
    /\ proc \in 0..MaxSpawn
    /\ running \in BOOLEAN
    /\ last_error \in {""} \cup StartErrors \cup TickErrors
    /\ last_send_time \in {0, StartTime}
    /\ frames_sent \in 0..MaxFrames
    /\ spawned = MaxSpawn
    /\ proc_state = "Running"
    /\ stdin_open = TRUE
    /\ cmd_size = <<1, 1>>
    /\ bytes_written = 0
    /\ now = StartTime
    /\ timers = EmptyBag
    /\ op = "env"
    /\ img = NoImage
    /\ ret = RetNone
    /\ px_read = FALSE
    /\ wrote = FALSE
    /\ dead_write = FALSE
    /\ term = ""
    /\ status = ""

\* a call of status_text()
StatusTextCall ==
    /\ status' = StatusText
    /\ op' = "status"
    /\ img' = NoImage
    /\ ret' = RetNone
    /\ px_read' = FALSE
    /\ wrote' = FALSE
    /\ dead_write' = FALSE
    /\ term' = ""
    /\ UNCHANGED <<fields, world, now>>

NextStatus == StatusTextCall

\* status_text() read on a TextureStreamer with any values in its fields
StatusSpec == InitStatus /\ [][NextStatus]_vars

\* the bytes that k frames written by stream() may come to: each frame is the
\* len(img.pixels) bytes of the image as it is at that tick, whatever size
\* start() saw
RECURSIVE FrameSums(_)
FrameSums(k) ==
    IF k = 0 THEN {0}
    ELSE {a + FrameBytes(image.pixels) : a \in FrameSums(k - 1), image \in Images}

\* the self.stream that n successful start() may have left registered, with one
\* of them due: each is due or has up to one period left
TimerBags(n) ==
    {[d \in {e \in 0..Period : b[e] > 0} |-> b[d]] :
       b \in {c \in [0..Period -> 0..n] : c[0] > 0 /\ c[0] + c[Period] <= n}}

\* a running session at any time of its life, as start() and the ticks before
\* have left it, with a self.stream due: any number of frames sent, the last one
\* any time ago and of any size, the encoder alive or exited since, and the
\* self.stream of earlier sessions left registered or not
InitTick ==
    /\ running = TRUE
    /\ last_error = ""
    /\ spawned \in 1..MaxSpawn
    /\ proc = spawned
    /\ proc_state \in {"Running", "Exited"}
    /\ stdin_open = TRUE
    /\ cmd_size \in {size \in ImgSizes : ~BadSize(size)}
    /\ frames_sent \in 0..(MaxFrames - 1)
    /\ bytes_written \in FrameSums(frames_sent)
    /\ now \in StartTime..LongMaxTime
    /\ last_send_time \in IF frames_sent = 0 THEN {0} ELSE StartTime..now
    /\ timers \in TimerBags(spawned)
    /\ op = "env"
    /\ img = NoImage
    /\ ret = RetNone
    /\ px_read = FALSE
    /\ wrote = FALSE
    /\ dead_write = FALSE
    /\ term = ""
    /\ status = ""

NextTick == Tick

\* stream() run on a running session at any time of its life
TickSpec == InitTick /\ [][NextTick]_vars

\* ------------------------------------------------------------ properties

\* the streamer holds a process that is alive
Alive == proc # None /\ proc_state = "Running"

\* C1: in every reachable state, a non-empty last_error implies running == False.
C1_ErrorImpliesStopped == last_error # "" => ~running

\* a tick has just failed on a write and stopped the pipeline
C1_Witness == op = "tick" /\ wrote /\ last_error = "Write failed" /\ ~running

\* C2 as claimed: in every reachable state, running implies that the encoder
\* process is in state Running, also when it has exited between two ticks.
C2_RunningImpliesAlive == running => Alive

\* C2 as amended: while running the streamer holds the process it spawned last,
\* with its stdin open and never terminated by the streamer: the process is
\* Running, or it has exited on its own (Exited); and a tick that finds it
\* exited at its poll leaves running False.
C2_RunningImpliesHeld ==
    /\ [](running => /\ proc # None
                      /\ proc = spawned
                      /\ stdin_open
                      /\ proc_state \in {"Running", "Exited"})
    /\ [][(op' = "tick" /\ running /\ proc_state = "Exited") => ~running']_vars
    /\ [][(op' = "tick" /\ running') => (proc_state = "Running" /\ last_error' = "")]_vars

\* the encoder has exited on its own and no tick has noticed yet
C2_Witness == running /\ proc # None /\ proc_state = "Exited" /\ frames_sent > 0

\* a tick has written a frame after an earlier frame of the same session
NextFrame == op' = "tick" /\ frames_sent >= 1 /\ frames_sent' = frames_sent + 1

\* a tick runs in a running session whose encoder is alive
LiveTick == op' = "tick" /\ running /\ Alive

\* C3: with the image never dirty (IdleSpec), the time between two consecutive
\* frame writes never exceeds KEEPALIVE_SECONDS. (A tick on an image that is not
\* dirty writes only when more than KEEPALIVE_SECONDS have passed since the
\* last send, so the second frame of any such session is later than that.)
C3_GapWithinKeepalive == [][NextFrame => now - last_send_time <= Keepalive]_vars

\* C4: two frame writes of a session are never less than one frame period apart.
C4_WritesAPeriodApart == [][NextFrame => now - last_send_time >= Period]_vars

\* C5 as claimed: when the encoder has exited, the next tick of the running
\* session writes nothing, sets last_error, clears running, drops the handle and
\* returns None; and stdin.write is never called on a process that has exited.
C5_NoWriteToDeadProcess ==
    /\ [][(op' = "tick" /\ running /\ proc # None /\ proc_state = "Exited") =>
            /\ ~wrote' /\ ~px_read'
            /\ bytes_written' = bytes_written
            /\ frames_sent' = frames_sent
            /\ last_error' = "ffmpeg exited unexpectedly."
            /\ ~running'
            /\ proc' = None
            /\ ret' = RetNone]_vars
    /\ [](~dead_write)

\* C5 as amended: when the encoder has exited before a tick of the running
\* session begins, that tick writes nothing, sets last_error, clears running,
\* drops the handle and returns None, and nothing is written to that process
\* afterwards; stdin.write is called on a process that has exited only in the
\* tick in which it exited, after the poll of that tick.
C5_NoWriteAfterPoll ==
    /\ [][(op' = "tick" /\ running /\ proc # None /\ proc_state = "Exited") =>
            /\ ~wrote' /\ ~px_read'
            /\ bytes_written' = bytes_written
            /\ frames_sent' = frames_sent
            /\ last_error' = "ffmpeg exited unexpectedly."
            /\ ~running'
            /\ proc' = None
            /\ ret' = RetNone]_vars
    /\ [][(proc_state = "Exited" /\ spawned' = spawned) =>
            (~wrote' /\ bytes_written' = bytes_written)]_vars
    /\ [][dead_write' =>
            (op' = "tick" /\ wrote' /\ proc_state = "Running" /\ proc_state' = "Exited")]_vars

\* a tick has found the encoder of a session that had sent frames exited
C5_Witness ==
    /\ op = "tick" /\ ret = RetNone /\ ~running /\ proc_state = "Exited"
    /\ last_error = "ffmpeg exited unexpectedly." /\ frames_sent > 0

\* C6: while the streamer holds the process, the bytes written to its stdin are
\* frames_sent frames of the W x H x 4 bytes the ffmpeg command was given.
C6_ByteCount == proc # None => bytes_written = frames_sent * CmdFrameBytes(cmd_size)

\* the image is missing or has no width or no height
BadSurface(image) == ~image.present \/ image.size[1] = 0 \/ image.size[2] = 0

\* what C7 says of a start(): status Error, no frame, not running, no process
\* spawned, no timer registered
StartRefused ==
    /\ StatusText' = "Error"
    /\ frames_sent' = 0
    /\ ~running'
    /\ proc' = None
    /\ spawned' = spawned
    /\ proc_state' = proc_state
    /\ timers' = timers

\* C7 as claimed: every start() on a missing image, or on one of zero width or
\* zero height, is refused.
C7_BadSurfaceRefused == [][(op' = "start" /\ BadSurface(img')) => StartRefused]_vars

\* C7 as amended: every start() made while not running on a missing image, or on
\* one of zero width or zero height, is refused.
C7_BadSurfaceRefusedWhenIdle ==
    [][(op' = "start" /\ ~running /\ BadSurface(img')) => StartRefused]_vars

\* start() has refused an image of zero size after an earlier session
C7_Witness ==
    /\ op = "start" /\ img.present /\ BadSurface(img) /\ spawned > 0
    /\ last_error = "Invalid image size" /\ ~running /\ frames_sent = 0

\* C8 as claimed: a tick on a dirty image, running and with the encoder alive,
\* writes a frame whatever the time since the last send.
C8_DirtyTickWrites ==
    [][(LiveTick /\ img'.present /\ img'.is_dirty) =>
         /\ frames_sent' = frames_sent + 1
         /\ bytes_written' = bytes_written + FrameBytes(img'.pixels)]_vars

\* C8 as amended: a tick on a dirty image, running and with the encoder alive,
\* reads the pixels and calls write whatever the time since the last send; the
\* frame is written and counted unless that write raises.
C8_DirtyTickSends ==
    [][(LiveTick /\ img'.present /\ img'.is_dirty) =>
         /\ px_read' /\ wrote'
         /\ \/ /\ frames_sent' = frames_sent + 1
               /\ bytes_written' = bytes_written + FrameBytes(img'.pixels)
               /\ last_send_time' = now
               /\ ret' = Period
               /\ running'
            \/ /\ last_error' = "Write failed"
               /\ frames_sent' = frames_sent]_vars

\* a second frame of a dirty image was written within a period of the start()
C8_Witness ==
    /\ op = "tick" /\ wrote /\ img.is_dirty /\ running
    /\ frames_sent = 2 /\ spawned = 1 /\ last_send_time <= StartTime + Period

\* C9: a tick that finds the encoder exited, the image missing or the write
\* failing leaves running False, last_error set, no handle, and returns None;
\* from then on, until a start(), running stays False, last_error stays as it
\* is, nothing is written or spawned, and every tick returns None.
C9_TickErrorTerminal ==
    /\ [][(op' = "tick" /\ running /\
             (ProcExited \/ ~img'.present \/ (wrote' /\ frames_sent' = frames_sent))) =>
            /\ last_error' \in TickErrors
            /\ ~running'
            /\ proc' = None
            /\ ret' = RetNone]_vars
    /\ [][(last_error \in TickErrors /\ op' # "start") =>
            /\ ~running'
            /\ last_error' = last_error
            /\ ~wrote'
            /\ bytes_written' = bytes_written
            /\ frames_sent' = frames_sent
            /\ spawned' = spawned
            /\ proc' = None
            /\ (op' = "tick" => ret' = RetNone)]_vars

\* after a tick lost the image, a later timer has run and changed nothing
C9_Witness ==
    /\ op = "tick" /\ ret = RetNone /\ ~img.present /\ ~running
    /\ last_error = "Image missing" /\ spawned = MaxSpawn /\ timers = EmptyBag

\* C10: a tick leaves frames_sent or adds exactly 1 to it, and leaves it when it
\* fails; stop() and the environment leave it; it decreases only in a start()
\* made while not running, which sets it to 0.
C10_FramesSentMonotone ==
    [][/\ op' = "tick" => frames_sent' \in {frames_sent, frames_sent + 1}
       /\ (op' = "tick" /\ ret' = RetNone) => frames_sent' = frames_sent
       /\ op' \in {"stop", "env"} => frames_sent' = frames_sent
       /\ frames_sent' < frames_sent => (op' = "start" /\ ~running /\ frames_sent' = 0)
      ]_vars

\* a tick failed on a write after two frames, and the count is still two
C10_Witness ==
    /\ op = "tick" /\ wrote /\ last_error = "Write failed" /\ frames_sent = 1
    /\ spawned = 2

\* no start() has been called: every start() made while not running spawns a
\* process or records an error, and only a start() clears last_error
NeverStarted == spawned = 0 /\ last_error = ""

\* C11 as claimed: a stop() that follows a stop(), or that comes before any
\* start(), leaves the status Stopped and changes no state variable. (A stop()
\* made in the state a stop() has left changes nothing, so the state after the
\* second stop() is the state after the first.)
C11_StopTwiceStopped ==
    /\ [](op = "stop" => StatusText = "Stopped")
    /\ [][(op' = "stop" /\ (op = "stop" \/ NeverStarted)) =>
            UNCHANGED <<fields, world, now>>]_vars

\* C11 as amended: every stop() leaves running False, no handle and last_error
\* as it was, so the status after it is Stopped unless last_error was already
\* set, and then it stays Error; a stop() that follows a stop(), or comes before
\* any start(), or is made while not running, changes no state variable.
C11_StopIdempotent ==
    /\ [](op = "stop" =>
            /\ ~running
            /\ proc = None
            /\ StatusText = IF last_error = "" THEN "Stopped" ELSE "Error")
    /\ [](op = "stop" /\ NeverStarted => StatusText = "Stopped")
    /\ [][op' = "stop" => last_error' = last_error]_vars
    /\ [][(op' = "stop" /\ (op = "stop" \/ NeverStarted \/ ~running)) =>
            UNCHANGED <<fields, world, now>>]_vars

\* a stop() was made after a tick had failed and stopped the session
C11_Witness ==
    /\ op = "stop" /\ last_error \in TickErrors /\ ~running /\ proc = None
    /\ StatusText = "Error"

\* C12: a start() made while running leaves running, last_error, frames_sent,
\* last_send_time and the handle unchanged, spawns no process and registers no
\* timer.
C12_StartWhileRunningNoOp ==
    [][(op' = "start" /\ running) =>
         /\ UNCHANGED fields
         /\ spawned' = spawned
         /\ timers' = timers
         /\ UNCHANGED <<proc_state, stdin_open, cmd_size, bytes_written, now>>]_vars

\* a start() on a missing image was made in a session that had sent a frame
C12_Witness ==
    /\ op = "start" /\ running /\ frames_sent > 0 /\ ~img.present
    /\ proc # None /\ last_error = ""

\* the step has run the body of stop(): in a stop(), or in a tick that failed
StopRan == op' \in {"stop", "tick"} /\ running /\ ~running'

\* C13 as claimed: whenever the streamer holds a handle when stop() is called,
\* by the user or by a tick that has just set last_error, stop() closes stdin
\* and terminates the process, so that it does not run afterwards; and stop()
\* changes last_error in no case.
C13_StopTerminates ==
    /\ [][(StopRan /\ proc # None) =>
            /\ ~stdin_open'
            /\ proc_state' \in {"Killed", "Exited"}]_vars
    /\ [][op' = "stop" => last_error' = last_error]_vars

\* C13 as amended: whenever the streamer holds a handle when stop() is called,
\* by the user or by a tick that has just set last_error, stop() closes stdin,
\* calls terminate() and drops the handle: a process that was running is Killed,
\* or has Exited on its own, and is left Running only when terminate() raised,
\* which stop() swallows; a process that had exited stays Exited. stop()
\* changes last_error in no case, and calls terminate() only on a handle it
\* holds; the handle is never held by a streamer that is not running, so no
\* stop() returns at its guard with a handle left.
C13_StopSafe ==
    /\ [][(StopRan /\ proc # None) =>
            /\ ~stdin_open'
            /\ term' \in {"called", "raised"}
            /\ proc' = None
            /\ proc_state = "Exited" => (proc_state' = "Exited" /\ term' = "called")
            /\ proc_state = "Running" =>
                  \/ proc_state' \in {"Killed", "Exited"} /\ term' = "called"
                  \/ proc_state' = "Running" /\ term' = "raised"
            /\ spawned' = spawned]_vars
    /\ [][term' # "" => (StopRan /\ proc # None)]_vars
    /\ [][op' = "stop" => (last_error' = last_error /\ proc' = None /\ ~running')]_vars
    /\ [][(op' = "tick" /\ StopRan) => last_error' \in TickErrors]_vars
    /\ [](proc # None => running)

\* a tick that lost the image has set last_error and called stop(), whose
\* terminate() raised: stdin is closed, the handle is dropped and last_error is
\* as the tick set it, with the process still running
C13_Witness ==
    /\ op = "tick" /\ last_error = "Image missing" /\ term = "raised"
    /\ proc = None /\ ~running /\ proc_state = "Running" /\ ~stdin_open

\* C14: every start() made while not running leaves frames_sent = 0 and
\* last_send_time = 0, and leaves in last_error the error of this start() or
\* nothing: last_error is empty exactly when the start() has succeeded, whatever
\* the session before has left.
C14_StartResets ==
    /\ [][(op' = "start" /\ ~running) =>
            /\ frames_sent' = 0
            /\ last_send_time' = 0
            /\ last_error' \in {""} \cup StartErrors
            /\ last_error' = "" <=> running']_vars
    /\ [](op = "start" /\ ~running =>
            /\ frames_sent = 0
            /\ last_send_time = 0
            /\ last_error \in StartErrors)

\* a start() has failed after a session that had sent two frames, and has reset
\* the counter
C14_Witness ==
    /\ op = "start" /\ ~running /\ last_error = "Image not found"
    /\ frames_sent = 0 /\ last_send_time = 0 /\ spawned > 0
    /\ cmd_size = <<2, 1>> /\ bytes_written = 2 * CmdFrameBytes(cmd_size)

\* C15: status_text() returns Error when last_error is not empty, else Streaming
\* when running, else Stopped, for every combination of the two fields
\* (StatusSpec), and changes nothing.
C15_StatusPure ==
    [][op' = "status" =>
         /\ status' = IF last_error # "" THEN "Error"
                       ELSE IF running THEN "Streaming" ELSE "Stopped"
         /\ UNCHANGED <<fields, world, now>>]_vars

\* the status was read with last_error set and running True at once
C15_Witness ==
    /\ op = "status" /\ status = "Error" /\ running /\ last_error = "Write failed"

\* C16: a tick in a running session with the encoder alive and the image
\* present, not dirty, and no more than KEEPALIVE_SECONDS after the last send,
\* whatever has happened in the session before (TickSpec), reads no pixels, writes nothing, leaves every field of the streamer, the pipe
\* and the timers of others as they are, and returns one period.
C16_IdleTick ==
    [][(LiveTick /\ img'.present /\ ~img'.is_dirty
             /\ now - last_send_time <= Keepalive) =>
         /\ ~px_read'
         /\ ~wrote'
         /\ UNCHANGED fields
         /\ UNCHANGED <<spawned, stdin_open, cmd_size, bytes_written>>
         /\ ret' = Period]_vars

\* an idle tick has run exactly KEEPALIVE_SECONDS after the last send
C16_Witness ==
    /\ op = "tick" /\ ret = Period /\ ~px_read /\ ~wrote /\ running
    /\ img.present /\ ~img.is_dirty /\ frames_sent = 1
    /\ now - last_send_time = Keepalive

\* C17: a tick whose write raises leaves frames_sent and last_send_time, records
\* "Write failed", leaves running False and no handle, and returns None; a tick
\* changes frames_sent or last_send_time only when its write has succeeded, and
\* that tick adds 1 to frames_sent, sets last_send_time to the time of the tick
\* and returns one period.
C17_WriteFailure ==
    /\ [][(op' = "tick" /\ wrote' /\ last_error' # "") =>
            /\ frames_sent' = frames_sent
            /\ last_send_time' = last_send_time
            /\ last_error' = "Write failed"
            /\ ~running'
            /\ proc' = None
            /\ ret' = RetNone]_vars
    /\ [][(op' = "tick" /\
             (frames_sent' # frames_sent \/ last_send_time' # last_send_time)) =>
            /\ wrote'
            /\ last_error' = ""
            /\ frames_sent' = frames_sent + 1
            /\ last_send_time' = now
            /\ running'
            /\ ret' = Period]_vars
    /\ [][(op' = "tick" /\ wrote' /\ last_error' = "") =>
            /\ frames_sent' = frames_sent + 1
            /\ last_send_time' = now
            /\ ret' = Period]_vars

\* a write has failed later than the first frame of the session, and the time of
\* the last send is still that of the first frame
C17_Witness ==
    /\ op = "tick" /\ wrote /\ last_error = "Write failed" /\ ret = RetNone
    /\ frames_sent = 1 /\ last_send_time > 0 /\ last_send_time < now

\* C18: at most one registration of stream() is pending at any time.
C18_OneTickPending == BagCardinality(timers) <= 1

\* C19: the streamer holds a handle exactly when running is True, and a start()
\* that succeeds holds a process spawned by that start(), never the handle of
\* an earlier session.
C19_HandleIffRunning ==
    /\ [](proc # None <=> running)
    /\ [](proc # None => proc = spawned)
    /\ [][(op' = "start" /\ ~running /\ running') =>
            /\ spawned' = spawned + 1
            /\ proc' = spawned'
            /\ proc_state' = "Running"
            /\ stdin_open'
            /\ bytes_written' = 0]_vars

\* the second session holds the second process, after the first was terminated
C19_Witness ==
    /\ op = "start" /\ running /\ proc = 2 /\ spawned = 2
    /\ proc_state = "Running" /\ frames_sent = 0

\* C20: a tick of a running session that has written no frame yet, with the
\* encoder alive and the image present, reads the pixels and calls write also
\* when the image is not dirty, and writes the first frame unless the write
\* raises: last_send_time is 0 since the start() and the clock is far past
\* KEEPALIVE_SECONDS. This holds in every session.
C20_FirstTickWrites ==
    /\ [](running /\ frames_sent = 0 => last_send_time = 0)
    /\ [](now - last_send_time > Keepalive \/ frames_sent > 0 \/ ~running)
    /\ [][(LiveTick /\ frames_sent = 0 /\ img'.present) =>
            /\ px_read' /\ wrote'
            /\ \/ /\ frames_sent' = 1
                  /\ last_send_time' = now
                  /\ bytes_written' = FrameBytes(img'.pixels)
                  /\ ret' = Period
               \/ last_error' = "Write failed"]_vars

\* the first tick of the second session has written a frame of a clean image,
\* less than KEEPALIVE_SECONDS after the first session was started
C20_Witness ==
    /\ op = "tick" /\ wrote /\ running /\ ~img.is_dirty /\ frames_sent = 1
    /\ spawned = 2 /\ last_send_time = now /\ now - StartTime < Keepalive
====
